---- MODULE Spec2Model ----
(***************************************************************************)
(* Model of two front-end passes of mypy / mypyc:                          *)
(*   - mypy/exprtotype.py: expr_to_unanalyzed_type, the translation of an  *)
(*     expression in annotation position to an unanalyzed type;            *)
(*   - mypyc/irbuild/prebuildvisitor.py: PreBuildVisitor, the traversal    *)
(*     that collects free variables, nested functions, property setters,   *)
(*     decorators and singledispatch implementations.                      *)
(* Optional[str] values are sequences: <<>> is None, <<s>> is the str s.   *)
(* Dotted names are sequences of their components.                         *)
(***************************************************************************)
EXTENDS Integers, Sequences, FiniteSets, TLC

(***************************************************************************)
(* Bounds of the model.                                                    *)
(***************************************************************************)
MaxInt == 1
MaxTupleLen == 2
MaxCallArgs == 3
MaxDepth == 2
NumFuncs == 3
NumSymbols == 2
MaxDecorators == 2

(***************************************************************************)
(* mypy.nodes: the expression nodes the translator reads.                  *)
(***************************************************************************)
NoneVal == <<>>

NameExpr(n, fn) == [kind |-> "NameExpr", name |-> n, fullname |-> fn]

MemberExpr(e, n, fn) == [kind |-> "MemberExpr", expr |-> e, name |-> n, fullname |-> fn]

IndexExpr(b, i) == [kind |-> "IndexExpr", base |-> b, index |-> i]

TupleExpr(its) == [kind |-> "TupleExpr", items |-> its]

ListExpr(its) == [kind |-> "ListExpr", items |-> its]

CallExpr(c, as, ns) == [kind |-> "CallExpr", callee |-> c, args |-> as, arg_names |-> ns]

OpExpr(o, l, r) == [kind |-> "OpExpr", op |-> o, left |-> l, right |-> r]

UnaryExpr(o, e) == [kind |-> "UnaryExpr", op |-> o, expr |-> e]

IntExpr(v) == [kind |-> "IntExpr", value |-> v]

FloatExpr == [kind |-> "FloatExpr"]

ComplexExpr == [kind |-> "ComplexExpr"]

EllipsisExpr == [kind |-> "EllipsisExpr"]

StrExpr(s) == [kind |-> "StrExpr", svalue |-> s]

BytesExpr(s) == [kind |-> "BytesExpr", svalue |-> s]

UnicodeExpr(s) == [kind |-> "UnicodeExpr", svalue |-> s]

\* isinstance(expr, RefExpr): NameExpr and MemberExpr are the RefExpr classes.
IsRefExpr(e) == e.kind \in {"NameExpr", "MemberExpr"}

(***************************************************************************)
(* mypy.types: the results of the translation, and the two ways a call of  *)
(* the translator can end by an exception.                                 *)
(***************************************************************************)
Lit(t, v) == [type |-> t, v |-> v]

UnboundType(n) == [kind |-> "UnboundType", name |-> n, args |-> <<>>, empty_tuple_index |-> FALSE]

RawExpressionType(lv, base) == [kind |-> "RawExpressionType", literal_value |-> lv, base_type_name |-> base]

TypeList(its) == [kind |-> "TypeList", items |-> its]

UnionType(its) == [kind |-> "UnionType", items |-> its]

CallableArgument(t, n, c) == [kind |-> "CallableArgument", typ |-> t, name |-> n, constructor |-> c]

EllipsisType == [kind |-> "EllipsisType"]

AnyType == [kind |-> "AnyType"]

Raise(e) == [kind |-> "raise", exc |-> e]

TypeTranslationError == Raise("TypeTranslationError")

IndexError == Raise("IndexError")

IsRaise(t) == t.kind = "raise"

\* The first exception raised while the elements of ts are computed in order.
FirstRaise(ts) == ts[CHOOSE i \in 1..Len(ts) : IsRaise(ts[i]) /\ \A j \in 1..(i-1) : ~IsRaise(ts[j])]

AnyRaise(ts) == \E i \in 1..Len(ts) : IsRaise(ts[i])

(***************************************************************************)
(* mypy.options.Options, as far as the translator reads it.                *)
(***************************************************************************)
NoOptions == [present |-> FALSE, python_version |-> <<0, 0>>]

Options(v) == [present |-> TRUE, python_version |-> v]

\* Python's tuple comparison a >= b on pairs of integers.
TupleGE(a, b) == a[1] > b[1] \/ (a[1] = b[1] /\ a[2] >= b[2])

(***************************************************************************)
(* Collaborators of the translator that live in other modules of mypy.     *)
(***************************************************************************)
\* mypy.nodes.get_member_expr_fullname: the dotted name of a chain of member
\* accesses that ends in a name, None for any other chain.
RECURSIVE get_member_expr_fullname(_)
get_member_expr_fullname(expr) ==
    IF expr.expr.kind = "NameExpr" THEN <<expr.expr.name, expr.name>>
    ELSE IF expr.expr.kind = "MemberExpr"
         THEN LET initial == get_member_expr_fullname(expr.expr)
              IN IF initial = NoneVal THEN NoneVal ELSE Append(initial, expr.name)
         ELSE NoneVal

\* The strings the string-type parser reads as a plain type name.
TypeStrings == {"int"}

\* mypy.fastparse.parse_type_string: never raises; a string that parses as a
\* type name gives that unbound type, any other string is kept as a raw
\* string literal of the given fallback type.
parse_type_string(expr_string, expr_fallback_name) ==
    IF expr_string \in TypeStrings
    THEN UnboundType(<<expr_string>>)
    ELSE RawExpressionType(Lit("str", 0), expr_fallback_name)

(***************************************************************************)
(* mypy/exprtotype.py                                                      *)
(***************************************************************************)
NoParent == [kind |-> "None"]

AnnotatedNames == {<<"typing", "Annotated">>, <<"typing_extensions", "Annotated">>}

\* _extract_argument_name: [raised, value], value an Optional[str].
extract_argument_name(expr) ==
    IF expr.kind = "NameExpr" /\ expr.name = "None" THEN [raised |-> FALSE, value |-> NoneVal]
    ELSE IF expr.kind = "StrExpr" THEN [raised |-> FALSE, value |-> <<expr.svalue>>]
    ELSE IF expr.kind = "UnicodeExpr" THEN [raised |-> FALSE, value |-> <<expr.svalue>>]
    ELSE [raised |-> TRUE, value |-> NoneVal]

\* The gate of the OpExpr branch: options and options.python_version >= (3, 10).
union_syntax_enabled_strict(options) ==
    options.present /\ TupleGE(options.python_version, <<3, 10>>)
                    /\ options.python_version # <<3, 10>>

union_syntax_enabled(options) == options.present /\ TupleGE(options.python_version, <<3, 10>>)

\* The walk down the callee's member chain: [raised, names], names as
\* appended by the loop (innermost attribute first).
RECURSIVE callee_names(_)
callee_names(c) ==
    IF c.kind = "NameExpr" THEN [raised |-> FALSE, names |-> <<c.name>>]
    ELSE IF c.kind = "MemberExpr"
         THEN LET rest == callee_names(c.expr)
              IN IF rest.raised THEN rest
                 ELSE [raised |-> FALSE, names |-> <<c.name>> \o rest.names]
         ELSE [raised |-> TRUE, names |-> <<>>]

Reversed(s) == [i \in 1..Len(s) |-> s[Len(s) + 1 - i]]

\* isinstance(typ.literal_value, int): bool is a subclass of int.
literal_is_int(lv) == lv.type \in {"int", "bool"}

\* typ.literal_value *= -1: the product of a bool or an int with -1 is an int.
negate_literal(lv) == Lit("int", -lv.v)

\* `if base.args`: a tuple is true when it is not empty.
already_subscripted(base) == base.args # <<>>

RECURSIVE expr_to_unanalyzed_type(_, _, _)
RECURSIVE callable_argument_loop(_, _, _, _, _, _, _)

\* The loop over expr.args of the CallExpr branch, from the k-th argument
\* (i = k - 1) on, with the name and type collected so far; typ_is_default
\* is `typ is default_type`.
callable_argument_loop(expr, options, arg_const, k, name, typ, typ_is_default) ==
    IF k > Len(expr.args) THEN CallableArgument(typ, name, arg_const)
    ELSE LET arg == expr.args[k]
             arg_name == expr.arg_names[k]
         IN IF arg_name # NoneVal
            THEN IF arg_name = <<"name">>
                 THEN IF name # NoneVal THEN TypeTranslationError
                      ELSE LET n == extract_argument_name(arg)
                           IN IF n.raised THEN TypeTranslationError
                              ELSE callable_argument_loop(expr, options, arg_const, k + 1,
                                                          n.value, typ, typ_is_default)
                 ELSE IF arg_name = <<"type">>
                 THEN IF ~typ_is_default THEN TypeTranslationError
                      ELSE LET t == expr_to_unanalyzed_type(arg, options, expr)
                           IN IF IsRaise(t) THEN t
                              ELSE callable_argument_loop(expr, options, arg_const, k + 1,
                                                          name, t, FALSE)
                 ELSE TypeTranslationError
            ELSE IF k - 1 = 0
                 THEN LET t == expr_to_unanalyzed_type(arg, options, expr)
                      IN IF IsRaise(t) THEN t
                         ELSE callable_argument_loop(expr, options, arg_const, k + 1,
                                                     name, t, FALSE)
            ELSE IF k - 1 = 1
                 THEN LET n == extract_argument_name(arg)
                      IN IF n.raised THEN TypeTranslationError
                         ELSE callable_argument_loop(expr, options, arg_const, k + 1,
                                                     n.value, typ, typ_is_default)
            ELSE TypeTranslationError

expr_to_unanalyzed_type(expr, options, parent) ==
    IF expr.kind = "NameExpr"
    THEN IF expr.name = "True" THEN RawExpressionType(Lit("bool", 1), "builtins.bool")
         ELSE IF expr.name = "False" THEN RawExpressionType(Lit("bool", 0), "builtins.bool")
         ELSE UnboundType(<<expr.name>>)
    ELSE IF expr.kind = "MemberExpr"
    THEN LET fullname == get_member_expr_fullname(expr)
         IN IF fullname # NoneVal THEN UnboundType(fullname) ELSE TypeTranslationError
    ELSE IF expr.kind = "IndexExpr"
    THEN LET base == expr_to_unanalyzed_type(expr.base, options, expr)
         IN IF IsRaise(base) THEN base
            ELSE IF base.kind = "UnboundType"
            THEN IF already_subscripted(base) THEN TypeTranslationError
                 ELSE LET args == IF expr.index.kind = "TupleExpr"
                                  THEN expr.index.items ELSE <<expr.index>>
                      IN IF IsRefExpr(expr.base) /\ expr.base.fullname \in AnnotatedNames
                         THEN IF Len(args) = 0 THEN IndexError
                              ELSE expr_to_unanalyzed_type(args[1], options, expr)
                         ELSE LET targs == [i \in 1..Len(args) |->
                                              expr_to_unanalyzed_type(args[i], options, expr)]
                              IN IF AnyRaise(targs) THEN FirstRaise(targs)
                                 ELSE [base EXCEPT !.args = targs,
                                                   !.empty_tuple_index =
                                                       IF Len(targs) = 0 THEN TRUE ELSE @]
            ELSE TypeTranslationError
    ELSE IF expr.kind = "OpExpr" /\ expr.op = "|" /\ union_syntax_enabled(options)
    THEN LET ts == <<expr_to_unanalyzed_type(expr.left, options, NoParent),
                     expr_to_unanalyzed_type(expr.right, options, NoParent)>>
         IN IF AnyRaise(ts) THEN FirstRaise(ts) ELSE UnionType(ts)
    ELSE IF expr.kind = "CallExpr" /\ parent.kind = "ListExpr"
    THEN LET c == callee_names(expr.callee)
         IN IF c.raised THEN TypeTranslationError
            ELSE callable_argument_loop(expr, options, Reversed(c.names), 1,
                                        NoneVal, AnyType, TRUE)
    ELSE IF expr.kind = "ListExpr"
    THEN LET ts == [i \in 1..Len(expr.items) |->
                      expr_to_unanalyzed_type(expr.items[i], options, expr)]
         IN IF AnyRaise(ts) THEN FirstRaise(ts) ELSE TypeList(ts)
    ELSE IF expr.kind = "StrExpr" THEN parse_type_string(expr.svalue, "builtins.str")
    ELSE IF expr.kind = "BytesExpr" THEN parse_type_string(expr.svalue, "builtins.bytes")
    ELSE IF expr.kind = "UnicodeExpr" THEN parse_type_string(expr.svalue, "builtins.unicode")
    ELSE IF expr.kind = "UnaryExpr"
    THEN LET typ == expr_to_unanalyzed_type(expr.expr, options, NoParent)
         IN IF IsRaise(typ) THEN typ
            ELSE IF typ.kind = "RawExpressionType"
                    /\ literal_is_int(typ.literal_value) /\ expr.op = "-"
            THEN [typ EXCEPT !.literal_value = negate_literal(@)]
            ELSE TypeTranslationError
    ELSE IF expr.kind = "IntExpr"
    THEN RawExpressionType(Lit("int", expr.value), "builtins.int")
    ELSE IF expr.kind = "FloatExpr"
    THEN RawExpressionType(Lit("NoneType", 0), "builtins.float")
    ELSE IF expr.kind = "ComplexExpr"
    THEN RawExpressionType(Lit("NoneType", 0), "builtins.complex")
    ELSE IF expr.kind = "EllipsisExpr" THEN EllipsisType
    ELSE TypeTranslationError

(***************************************************************************)
(* The inputs of the translator: expression trees and options.             *)
(***************************************************************************)
SeqsUpTo(S, n) == UNION {[1..k -> S] : k \in 0..n}

NInt == NameExpr("int", <<"builtins", "int">>)

NTrue == NameExpr("True", <<"builtins", "True">>)

NFalse == NameExpr("False", <<"builtins", "False">>)

NNone == NameExpr("None", <<"builtins", "None">>)

NAnnotated == NameExpr("Annotated", <<"typing", "Annotated">>)

MAnnotated ==
    MemberExpr(NameExpr("typing_extensions", <<"typing_extensions">>), "Annotated",
               <<"typing_extensions", "Annotated">>)

\* A member access on something that is no name: it has no full name.
MNoName == MemberExpr(IntExpr(0), "x", NoneVal)

IntLits == {IntExpr(v) : v \in 0..MaxInt}

Atoms ==
    {NInt, NTrue, NFalse, NAnnotated, MAnnotated, MNoName, FloatExpr, ComplexExpr,
     EllipsisExpr, StrExpr("int"), StrExpr("x"), BytesExpr("x"), UnicodeExpr("x")}
    \cup IntLits

Tuples == {TupleExpr(s) : s \in SeqsUpTo({NInt, IntExpr(0)}, MaxTupleLen)}

\* Every one-level construct over the atoms.
Flat ==
    {IndexExpr(b, i) : b \in Atoms, i \in Atoms \cup Tuples}
    \cup {UnaryExpr(o, e) : o \in {"-", "+"}, e \in Atoms}
    \cup {OpExpr(o, l, r) : o \in {"|", "+"}, l \in Atoms, r \in Atoms}
    \cup {ListExpr(s) : s \in SeqsUpTo({NInt, MNoName}, MaxTupleLen)}
    \cup Tuples

\* One more level of nesting around an expression of S.
Wrap(S) ==
    {IndexExpr(e, i) : e \in S, i \in {NInt, TupleExpr(<<>>), TupleExpr(<<NInt, IntExpr(0)>>)}}
    \cup {IndexExpr(b, e) : b \in {NInt, NAnnotated}, e \in S}
    \cup {UnaryExpr("-", e) : e \in S}
    \cup {OpExpr("|", NInt, e) : e \in S}
    \cup {ListExpr(<<e>>) : e \in S}

RECURSIVE Nested(_)
Nested(d) == IF d = 0 THEN {NInt, NTrue, NAnnotated, IntExpr(MaxInt)}
             ELSE Nested(d - 1) \cup Wrap(Nested(d - 1))

\* The argument names of a call the parser can produce: positional
\* arguments (None) first, then keywords, no keyword twice.
ArgNameSeqs ==
    {ns \in SeqsUpTo({NoneVal, <<"name">>, <<"type">>, <<"other">>}, MaxCallArgs) :
        /\ \A i, j \in 1..Len(ns) : i < j /\ ns[i] # NoneVal => ns[j] # NoneVal
        /\ \A i, j \in 1..Len(ns) : i < j /\ ns[i] # NoneVal => ns[i] # ns[j]}

ArgValues == {NNone, StrExpr("x"), NInt}

Callees == {NameExpr("Arg", <<"mypy_extensions", "Arg">>),
            MemberExpr(NameExpr("mypy_extensions", <<"mypy_extensions">>), "Arg",
                       <<"mypy_extensions", "Arg">>),
            IntExpr(0)}

Calls ==
    UNION {{CallExpr(c, as, ns) : c \in Callees, as \in [1..Len(ns) -> ArgValues]} :
              ns \in ArgNameSeqs}

Exprs ==
    Atoms \cup Flat \cup Nested(MaxDepth)
    \cup {ListExpr(<<c>>) : c \in Calls}
    \cup {c \in Calls : Len(c.args) <= 1}

OptionSet == {NoOptions} \cup {Options(v) : v \in {<<2, 7>>, <<3, 9>>, <<3, 10>>, <<3, 11>>}}

(***************************************************************************)
(* mypy.nodes, as the pre-build visitor reads them: decorator expressions  *)
(* with the nodes their names are bound to, and function arguments.        *)
(***************************************************************************)
\* What a name is bound to: a Decorator (with its func), a Var, a TypeInfo.
DecoratorNode(f) == [kind |-> "Decorator", func |-> f, info |-> ""]

VarNode == [kind |-> "Var", func |-> "", info |-> ""]

TypeInfoNode(t) == [kind |-> "TypeInfo", func |-> "", info |-> t]

RefName(n, node) == [kind |-> "NameExpr", name |-> n, node |-> node]

Member(e, n) == [kind |-> "MemberExpr", expr |-> e, name |-> n]

Call(c, as) == [kind |-> "CallExpr", callee |-> c, args |-> as]

\* The proper type of an argument's variable.
Instance(t) == [kind |-> "Instance", type |-> t]

AnyT == [kind |-> "AnyType", type |-> ""]

Argument(t) == [variable |-> [type |-> t]]

(***************************************************************************)
(* The decorators and argument lists the analysed units are built from.    *)
(***************************************************************************)
\* @x.setter
SetterDec == Member(RefName("x", VarNode), "setter")

\* @fun.register(int) and @gun.register(str): fun and gun are decorated
\* (singledispatch) functions.
RegisterIntOnFun ==
    Call(Member(RefName("fun", DecoratorNode("fun")), "register"),
         <<RefName("int", TypeInfoNode("int"))>>)

RegisterStrOnGun ==
    Call(Member(RefName("gun", DecoratorNode("gun")), "register"),
         <<RefName("str", TypeInfoNode("str"))>>)

\* @fun.register, the dispatch type taken from the first argument's annotation.
RegisterBareOnFun == Member(RefName("fun", DecoratorNode("fun")), "register")

\* @d1 and @deco(int): ordinary decorators.
PlainDec == RefName("d1", VarNode)

PlainCallDec == Call(RefName("deco", VarNode), <<RefName("int", TypeInfoNode("int"))>>)

\* @fun.register(v), v a variable, and @v.register, v a variable: shaped
\* like registrations, not recognized as such.
RegisterVarOnFun ==
    Call(Member(RefName("fun", DecoratorNode("fun")), "register"), <<RefName("v", VarNode)>>)

RegisterOnVar == Member(RefName("v", VarNode), "register")

DecoratorExprs ==
    {SetterDec, RegisterIntOnFun, RegisterStrOnGun, RegisterBareOnFun,
     PlainDec, PlainCallDec, RegisterVarOnFun, RegisterOnVar}

DecoratorLists == SeqsUpTo(DecoratorExprs, MaxDecorators)

ArgumentLists == {<<>>, <<Argument(Instance("bytes"))>>, <<Argument(AnyT)>>}

Dispatchers == {"fun", "gun"}

\* The units analysed: how many function definitions and symbols a unit has
\* and how many of its functions are reached through a Decorator node.
PlainUnit == [functions |-> NumFuncs, symbols |-> NumSymbols, decorated |-> 0]

DecoratedUnit == [functions |-> 2, symbols |-> 1, decorated |-> 1]

NoUnit == [functions |-> 0, symbols |-> 0, decorated |-> 0]

(***************************************************************************)
(* State.                                                                  *)
(***************************************************************************)
VARIABLES
    expr,                  \* the expression handed to expr_to_unanalyzed_type
    options,               \* the options handed to it
    result,                \* what the call returned or raised
    pc,                    \* "start" before the call, "done" after it, "idle"
    unit,                  \* the size of the unit the visitor traverses
    funcs,                 \* PreBuildVisitor.funcs, the stack of open functions
    free_variables,        \* PreBuildVisitor.free_variables ({} for no entry)
    symbols_to_funcs,      \* PreBuildVisitor.symbols_to_funcs (0 for no entry)
    prop_setters,          \* PreBuildVisitor.prop_setters
    encapsulating_funcs,   \* PreBuildVisitor.encapsulating_funcs (<<>> for no entry)
    nested_funcs,          \* PreBuildVisitor.nested_funcs (0 for no entry)
    funcs_to_decorators,   \* PreBuildVisitor.funcs_to_decorators (<<>> for no entry)
    singledispatch_impls,  \* PreBuildVisitor.singledispatch_impls
    reached,               \* the number of function definitions reached so far
    lexical_parent,        \* the function open when a definition was reached
    is_decorated,          \* the functions reached through a Decorator node
    decorators,            \* Decorator.decorators of each function, as it is now
    source_decorators,     \* Decorator.decorators as the unit was handed over
    arguments,             \* FuncItem.arguments of each function
    first_func,            \* the function open at a symbol's first sighting
    sighted                \* <<symbol, function>>: a sighting in that function

tvars == <<expr, options, result, pc>>

avars == <<unit, funcs, free_variables, symbols_to_funcs, prop_setters, encapsulating_funcs,
           nested_funcs, funcs_to_decorators, singledispatch_impls, reached, lexical_parent,
           is_decorated, decorators, source_decorators, arguments, first_func, sighted>>

vars == <<tvars, avars>>

NoResult == [kind |-> "None"]

Funcs == 1..unit.functions

Symbols == 1..unit.symbols

\* PreBuildVisitor.__init__, before the traversal of a unit u.
InitVisitor(u) ==
    /\ unit = u
    /\ funcs = <<>>
    /\ free_variables = [f \in 1..u.functions |-> {}]
    /\ symbols_to_funcs = [s \in 1..u.symbols |-> 0]
    /\ prop_setters = {}
    /\ encapsulating_funcs = [f \in 1..u.functions |-> <<>>]
    /\ nested_funcs = [f \in 1..u.functions |-> 0]
    /\ funcs_to_decorators = [f \in 1..u.functions |-> <<>>]
    /\ singledispatch_impls = [d \in Dispatchers |-> <<>>]
    /\ reached = 0
    /\ lexical_parent = [f \in 1..u.functions |-> 0]
    /\ is_decorated = {}
    /\ decorators = [f \in 1..u.functions |-> <<>>]
    /\ source_decorators = [f \in 1..u.functions |-> <<>>]
    /\ arguments = [f \in 1..u.functions |-> <<>>]
    /\ first_func = [s \in 1..u.symbols |-> 0]
    /\ sighted = {}

NoTranslation ==
    /\ expr = NInt
    /\ options = NoOptions
    /\ result = NoResult
    /\ pc = "idle"

InitT ==
    /\ expr \in Exprs
    /\ options \in OptionSet
    /\ result = NoResult
    /\ pc = "start"
    /\ InitVisitor(NoUnit)

\* One call expr_to_unanalyzed_type(expr, options).
Translate ==
    /\ pc = "start"
    /\ result' = expr_to_unanalyzed_type(expr, options, NoParent)
    /\ pc' = "done"
    /\ UNCHANGED <<expr, options, avars>>

NextT == Translate

SpecT == InitT /\ [][NextT]_vars

(***************************************************************************)
(* mypyc/irbuild/prebuildvisitor.py                                        *)
(***************************************************************************)
Top == funcs[Len(funcs)]

\* is_parent: child is nested in fitem, directly or through other functions.
is_parent_direct_only(fitem, child) == nested_funcs[child] # 0 /\ nested_funcs[child] = fitem

RECURSIVE is_parent(_, _)
is_parent(fitem, child) ==
    IF nested_funcs[child] # 0
    THEN LET parent == nested_funcs[child]
         IN IF parent = fitem THEN TRUE ELSE is_parent(fitem, parent)
    ELSE FALSE

NoImpl == [singledispatch_func |-> "", dispatch_type |-> ""]

RegisteredImpl(f, t) == [singledispatch_func |-> f, dispatch_type |-> t]

\* registered_impl_from_possible_register_call
registered_impl_from_possible_register_call(e, dispatch_type) ==
    IF e.name = "register" /\ e.expr.kind = "NameExpr"
    THEN LET node == e.expr.node
         IN IF node.kind = "Decorator" THEN RegisteredImpl(node.func, dispatch_type)
            ELSE NoImpl
    ELSE NoImpl

\* get_singledispatch_register_call_info(decorator, func), func given by its
\* arguments.
get_singledispatch_register_call_info(decorator, func_arguments) ==
    IF decorator.kind = "CallExpr" /\ Len(decorator.args) = 1
                                   /\ decorator.args[1].kind \in {"NameExpr", "MemberExpr"}
    THEN LET callee == decorator.callee
             dispatch_type == decorator.args[1].node
         IN IF dispatch_type.kind # "TypeInfo" THEN NoImpl
            ELSE IF callee.kind = "MemberExpr"
                 THEN registered_impl_from_possible_register_call(callee, dispatch_type.info)
                 ELSE NoImpl
    ELSE IF decorator.kind = "MemberExpr"
    THEN IF func_arguments = <<>> THEN NoImpl
         ELSE LET arg_type == func_arguments[1].variable.type
              IN IF arg_type.kind # "Instance" THEN NoImpl
                 ELSE registered_impl_from_possible_register_call(decorator, arg_type.type)
    ELSE NoImpl

\* The indices appended to `removed` by the loop over dec.decorators, in order.
RECURSIVE removed_indices(_, _, _)
removed_indices(decs, func_arguments, i) ==
    IF i > Len(decs) THEN <<>>
    ELSE IF get_singledispatch_register_call_info(decs[i], func_arguments) # NoImpl
         THEN <<i>> \o removed_indices(decs, func_arguments, i + 1)
         ELSE removed_indices(decs, func_arguments, i + 1)

\* singledispatch_impls after the loop over dec.decorators from index i on.
RECURSIVE register_impls(_, _, _, _, _)
register_impls(impls, decs, func, func_arguments, i) ==
    IF i > Len(decs) THEN impls
    ELSE LET impl == get_singledispatch_register_call_info(decs[i], func_arguments)
         IN IF impl # NoImpl
            THEN register_impls(
                     [impls EXCEPT ![impl.singledispatch_func] =
                                        Append(@, <<impl.dispatch_type, func>>)],
                     decs, func, func_arguments, i + 1)
            ELSE register_impls(impls, decs, func, func_arguments, i + 1)

\* del l[i]; an index out of range leaves the list as it is.
DelAt(l, i) ==
    IF i \in 1..Len(l) THEN SubSeq(l, 1, i - 1) \o SubSeq(l, i + 1, Len(l)) ELSE l

\* The order in which the removed indices are deleted: reversed(removed).
deletion_order_forward(removed) == removed

deletion_order(removed) == Reversed(removed)

\* for i in <order>: del dec.decorators[i]
RECURSIVE delete_decorators(_, _)
delete_decorators(decs, order) ==
    IF order = <<>> THEN decs
    ELSE delete_decorators(DelAt(decs, Head(order)), Tail(order))

\* The test that makes a decorated function a property setter.
is_setter_decorated_sole(decs) ==
    Len(decs) = 1 /\ decs[1].kind = "MemberExpr" /\ decs[1].name = "setter"

is_setter_decorated(decs) == decs[1].kind = "MemberExpr" /\ decs[1].name = "setter"

\* The part of visit_func before the body: the function reached is noted as
\* nested in the function on top of the stack, and pushed.
EnterFunc(func) ==
    /\ IF funcs # <<>>
       THEN /\ encapsulating_funcs' = [encapsulating_funcs EXCEPT ![Top] = Append(@, func)]
            /\ nested_funcs' = [nested_funcs EXCEPT ![func] = Top]
       ELSE UNCHANGED <<encapsulating_funcs, nested_funcs>>
    /\ funcs' = Append(funcs, func)

\* A function definition is reached in the traversal; functions are numbered
\* in the order in which the traversal reaches their definitions.
ReachDefinition(func, decorated, decs, args) ==
    /\ func = reached + 1
    /\ func \in Funcs
    /\ reached' = func
    /\ lexical_parent' = [lexical_parent EXCEPT ![func] = IF funcs = <<>> THEN 0 ELSE Top]
    /\ is_decorated' = IF decorated THEN is_decorated \cup {func} ELSE is_decorated
    /\ source_decorators' = [source_decorators EXCEPT ![func] = decs]
    /\ arguments' = [arguments EXCEPT ![func] = args]

\* visit_func_def / visit_lambda_expr -> visit_func, up to the traversal of
\* the body, for a function or lambda without a Decorator node (its
\* arguments are not read).
visit_func ==
    \E func \in {reached + 1} :
        /\ ReachDefinition(func, FALSE, <<>>, <<>>)
        /\ EnterFunc(func)
        /\ UNCHANGED <<tvars, unit, free_variables, symbols_to_funcs, prop_setters,
                       funcs_to_decorators, singledispatch_impls, decorators,
                       first_func, sighted>>

\* The end of visit_func, after the body was traversed: self.funcs.pop().
visit_func_return ==
    /\ funcs # <<>>
    /\ funcs' = SubSeq(funcs, 1, Len(funcs) - 1)
    /\ UNCHANGED <<tvars, unit, free_variables, symbols_to_funcs, prop_setters,
                   encapsulating_funcs, nested_funcs, funcs_to_decorators,
                   singledispatch_impls, reached, lexical_parent, is_decorated,
                   decorators, source_decorators, arguments, first_func, sighted>>

\* visit_decorator(dec), dec.func = func, up to the traversal of the body of
\* dec.func that super().visit_decorator(dec) starts by visit_func.
visit_decorator ==
    /\ Cardinality(is_decorated) < unit.decorated
    /\ reached + 1 \in Funcs
    /\ \E func \in {reached + 1}, decs \in DecoratorLists, args \in ArgumentLists :
        /\ ReachDefinition(func, TRUE, decs, args)
        /\ IF decs # <<>>
           THEN IF is_setter_decorated(decs)
                THEN /\ prop_setters' = prop_setters \cup {func}
                     /\ EnterFunc(func)
                     /\ decorators' = [decorators EXCEPT ![func] = decs]
                     /\ UNCHANGED <<funcs_to_decorators, singledispatch_impls>>
                ELSE LET removed == removed_indices(decs, args, 1)
                         kept == delete_decorators(decs, deletion_order(removed))
                     IN /\ singledispatch_impls' =
                               register_impls(singledispatch_impls, decs, func, args, 1)
                        /\ decorators' = [decorators EXCEPT ![func] = kept]
                        /\ UNCHANGED prop_setters
                        /\ IF kept = <<>>
                           THEN UNCHANGED <<funcs_to_decorators, funcs,
                                            encapsulating_funcs, nested_funcs>>
                           ELSE /\ funcs_to_decorators' =
                                       [funcs_to_decorators EXCEPT ![func] = kept]
                                /\ EnterFunc(func)
           ELSE /\ EnterFunc(func)
                /\ decorators' = [decorators EXCEPT ![func] = decs]
                /\ UNCHANGED <<prop_setters, funcs_to_decorators, singledispatch_impls>>
        /\ UNCHANGED <<tvars, unit, free_variables, symbols_to_funcs, first_func, sighted>>

\* add_free_variable(symbol), with symbols_to_funcs as it is when called.
add_free_variable(symbol) ==
    [free_variables EXCEPT ![symbols_to_funcs[symbol]] = @ \cup {symbol}]

\* visit_name_expr / visit_var -> visit_symbol_node(symbol); symbols are
\* numbered in the order of their first sighting inside a function.
visit_symbol_node ==
    \E symbol \in Symbols :
        /\ \A t \in Symbols : t < symbol => first_func[t] # 0
        /\ IF funcs = <<>>
           THEN UNCHANGED <<symbols_to_funcs, free_variables, first_func, sighted>>
           ELSE /\ first_func' = IF first_func[symbol] = 0
                                 THEN [first_func EXCEPT ![symbol] = Top] ELSE first_func
                /\ sighted' = sighted \cup {<<symbol, Top>>}
                /\ IF symbols_to_funcs[symbol] # 0
                   THEN LET orig_func == symbols_to_funcs[symbol]
                        IN IF is_parent(Top, orig_func)
                           THEN /\ symbols_to_funcs' = [symbols_to_funcs EXCEPT ![symbol] = Top]
                                /\ free_variables' = [free_variables EXCEPT ![Top] = @ \cup {symbol}]
                           ELSE IF is_parent(orig_func, Top)
                           THEN /\ free_variables' = add_free_variable(symbol)
                                /\ UNCHANGED symbols_to_funcs
                           ELSE UNCHANGED <<symbols_to_funcs, free_variables>>
                   ELSE /\ symbols_to_funcs' = [symbols_to_funcs EXCEPT ![symbol] = Top]
                        /\ UNCHANGED free_variables
        /\ UNCHANGED <<tvars, unit, funcs, prop_setters, encapsulating_funcs, nested_funcs,
                       funcs_to_decorators, singledispatch_impls, reached, lexical_parent,
                       is_decorated, decorators, source_decorators, arguments>>

\* The traversal of a unit without decorated functions.
Init == NoTranslation /\ InitVisitor(PlainUnit)

Next == visit_func \/ visit_func_return \/ visit_symbol_node

Spec == Init /\ [][Next]_vars

\* The traversal of a unit with a decorated function.
InitD == NoTranslation /\ InitVisitor(DecoratedUnit)

NextD == visit_func \/ visit_func_return \/ visit_symbol_node \/ visit_decorator

SpecD == InitD /\ [][NextD]_vars

(***************************************************************************)
(* Properties of the translator, checked under SpecT.                      *)
(***************************************************************************)
Translated(e) == expr_to_unanalyzed_type(e, options, NoParent)

\* The language version is supplied and is at least 3.10.
VersionAtLeast310 ==
    /\ options.present
    /\ \/ options.python_version[1] > 3
       \/ options.python_version[1] = 3 /\ options.python_version[2] > 9

IsUnionSyntax == expr.kind = "OpExpr" /\ expr.op = "|"

\* C5: the translation of left | right is UnionType([translate(left),
\* translate(right)]) if and only if a language version is supplied and is at
\* least (3, 10) (and both operands translate); with no version, or a lower
\* one, the translation of the node raises TypeTranslationError.
C5_UnionOnlyFrom310 ==
    pc = "done" /\ IsUnionSyntax =>
        /\ VersionAtLeast310 /\ ~IsRaise(Translated(expr.left))
                             /\ ~IsRaise(Translated(expr.right))
              => result = UnionType(<<Translated(expr.left), Translated(expr.right)>>)
        /\ ~VersionAtLeast310 => result = TypeTranslationError
        /\ result.kind = "UnionType" => VersionAtLeast310

\* A union is translated under exactly version (3, 10).
C5_Witness ==
    /\ pc = "done"
    /\ IsUnionSyntax
    /\ options = Options(<<3, 10>>)
    /\ result.kind = "UnionType"
    /\ Len(result.items) = 2

\* The base of expr is a subscript whose translation is an UnboundType that
\* one subscript has filled in (the subscript of an Annotated marker gives the
\* translation of its first element instead).
BaseSubscriptedOnce ==
    /\ expr.kind = "IndexExpr"
    /\ expr.base.kind = "IndexExpr"
    /\ ~(IsRefExpr(expr.base.base) /\ expr.base.base.fullname \in AnnotatedNames)
    /\ Translated(expr.base).kind = "UnboundType"

\* C6: subscripting an expression that is already a subscript raises
\* TypeTranslationError, whether the first subscript had one argument, several
\* or none (X[()]).
C6_ResubscriptFails ==
    pc = "done" /\ BaseSubscriptedOnce => result = TypeTranslationError

\* C7: a unary expression translates only as minus an integer literal, to the
\* negated literal; every other unary form, among them minus True, minus
\* False and minus a minus expression, raises TypeTranslationError.
C7_OnlyMinusIntLiteral ==
    pc = "done" /\ expr.kind = "UnaryExpr" /\ Translated(expr.expr) # IndexError =>
        IF expr.op = "-" /\ expr.expr.kind = "IntExpr"
        THEN result = RawExpressionType(Lit("int", -expr.expr.value), "builtins.int")
        ELSE result = TypeTranslationError

\* The number of arguments of a call that supply the argument's name (the
\* keyword `name` or the second positional argument), and its type (the
\* keyword `type` or the first positional argument).
NameSupplies(call) ==
    Cardinality({k \in 1..Len(call.args) :
        call.arg_names[k] = <<"name">> \/ (call.arg_names[k] = NoneVal /\ k = 2)})

TypeSupplies(call) ==
    Cardinality({k \in 1..Len(call.args) :
        call.arg_names[k] = <<"type">> \/ (call.arg_names[k] = NoneVal /\ k = 1)})

IsCallInList ==
    expr.kind = "ListExpr" /\ Len(expr.items) = 1 /\ expr.items[1].kind = "CallExpr"

\* C8: a call in a list whose arguments supply the name twice or the type
\* twice raises TypeTranslationError, whatever the supplied values are.
C8_SuppliedTwiceFails ==
    pc = "done" /\ IsCallInList
        /\ (NameSupplies(expr.items[1]) > 1 \/ TypeSupplies(expr.items[1]) > 1)
        => result = TypeTranslationError

\* C9: a call of the translator returns a type or raises
\* TypeTranslationError, no other exception.
C9_OnlyTranslationError ==
    pc = "done" => (IsRaise(result) => result = TypeTranslationError)

(***************************************************************************)
(* Properties of the pre-build visitor.                                    *)
(***************************************************************************)
\* g was reached while f was open, directly or through functions in between.
RECURSIVE LexicallyInside(_, _)
LexicallyInside(g, f) ==
    /\ lexical_parent[g] # 0
    /\ \/ lexical_parent[g] = f
       \/ LexicallyInside(lexical_parent[g], f)

\* s was first sighted in f and sighted again in g, a function inside f.
CapturedFrom(s, f, g) ==
    /\ first_func[s] = f
    /\ <<s, g>> \in sighted
    /\ LexicallyInside(g, f)

\* C1: a symbol first sighted while F is the innermost open function and
\* sighted later while G, nested in F directly or transitively, is the
\* innermost open function is in free_variables[F], and nested_funcs[G] is
\* the function that was on top of the stack when G was entered.
C1_CaptureRecorded ==
    \A s \in Symbols : \A f \in Funcs : \A g \in Funcs :
        CapturedFrom(s, f, g) =>
            /\ s \in free_variables[f]
            /\ nested_funcs[g] = lexical_parent[g]

\* A capture through a function in between: the traversal is over, s was
\* first sighted in f and sighted in g, whose parent is not f.
C1_Witness ==
    /\ funcs = <<>>
    /\ \E s \in Symbols : \E f \in Funcs : \E g \in Funcs :
        /\ CapturedFrom(s, f, g)
        /\ lexical_parent[g] # f
        /\ s \in free_variables[f]

\* g is an element of the list l.
InSeq(g, l) == \E i \in 1..Len(l) : l[i] = g

\* C2: every function whose definition lies directly inside a function f is
\* entered, whatever its decorators: nested_funcs[g] = f and g is in
\* encapsulating_funcs[f].
C2_NestedFunctionsEntered ==
    \A g \in Funcs :
        g <= reached /\ lexical_parent[g] # 0 =>
            /\ nested_funcs[g] = lexical_parent[g]
            /\ InSeq(g, encapsulating_funcs[lexical_parent[g]])

IsSetterExpr(d) == d.kind = "MemberExpr" /\ d.name = "setter"

\* C3: a decorated function is a property setter (and has no entry in
\* funcs_to_decorators) exactly when its only decorator is a member access
\* named setter; a function with any other non-empty decorator list, also one
\* of several decorators that starts with a setter access, is no property
\* setter.
C3_SetterOnlyWhenSole ==
    \A f \in is_decorated :
        /\ f \in prop_setters <=>
               (Len(source_decorators[f]) = 1 /\ IsSetterExpr(source_decorators[f][1]))
        /\ f \in prop_setters => funcs_to_decorators[f] = <<>>

\* A registration on a singledispatch function: fun.register(T) with T a
\* type, or fun.register over a function whose first argument is annotated
\* with a class.
IsRegistration(d, f) ==
    \/ d \in {RegisterIntOnFun, RegisterStrOnGun}
    \/ d = RegisterBareOnFun /\ arguments[f] # <<>>
                             /\ arguments[f][1].variable.type.kind = "Instance"

RegistrationPair(d, f) ==
    IF d = RegisterIntOnFun THEN <<"fun", <<"int", f>>>>
    ELSE IF d = RegisterStrOnGun THEN <<"gun", <<"str", f>>>>
    ELSE <<"fun", <<arguments[f][1].variable.type.type, f>>>>

\* The decorators of l that are no registrations, in their order, and the
\* pairs the registrations of l give to dispatcher disp, in their order.
RECURSIVE Ordinary(_, _)
Ordinary(l, f) ==
    IF l = <<>> THEN <<>>
    ELSE IF IsRegistration(Head(l), f) THEN Ordinary(Tail(l), f)
         ELSE <<Head(l)>> \o Ordinary(Tail(l), f)

RECURSIVE PairsFor(_, _, _)
PairsFor(l, f, disp) ==
    IF l = <<>> THEN <<>>
    ELSE IF IsRegistration(Head(l), f) /\ RegistrationPair(Head(l), f)[1] = disp
         THEN <<RegistrationPair(Head(l), f)[2]>> \o PairsFor(Tail(l), f, disp)
         ELSE PairsFor(Tail(l), f, disp)

\* C3, as amended: a decorated function is a property setter exactly when
\* its decorator list is not empty and starts with a member access named
\* setter, whatever follows it; a property setter has no entry in
\* funcs_to_decorators and none of its decorators is registered as a
\* singledispatch implementation, and the decorators of every other function
\* are scanned for registrations.
C3_SetterWhenFirst ==
    \A f \in is_decorated :
        /\ f \in prop_setters <=>
               (source_decorators[f] # <<>> /\ IsSetterExpr(source_decorators[f][1]))
        /\ f \in prop_setters =>
               /\ funcs_to_decorators[f] = <<>>
               /\ \A disp \in Dispatchers : singledispatch_impls[disp] = <<>>
        /\ f \notin prop_setters =>
               \A i \in 1..Len(source_decorators[f]) :
                   IsRegistration(source_decorators[f][i], f) =>
                       InSeq(RegistrationPair(source_decorators[f][i], f)[2],
                             singledispatch_impls[RegistrationPair(source_decorators[f][i], f)[1]])

\* A function with a setter access followed by another decorator is a
\* property setter.
C3_Witness ==
    \E f \in is_decorated :
        /\ Len(source_decorators[f]) = 2
        /\ IsSetterExpr(source_decorators[f][1])
        /\ f \in prop_setters
        /\ InSeq(f, funcs)

\* C4: for a decorated function that is no property setter, every recognized
\* registration decorator has given one (dispatch type, function) pair to its
\* dispatcher, and funcs_to_decorators of the function is its decorator list
\* without the registrations, in the same order; there is no entry when no
\* decorator remains.
C4_RegistrationsStripped ==
    \A f \in is_decorated :
        f \notin prop_setters /\ source_decorators[f] # <<>> =>
            /\ funcs_to_decorators[f] = Ordinary(source_decorators[f], f)
            /\ \A disp \in Dispatchers :
                   singledispatch_impls[disp] = PairsFor(source_decorators[f], f, disp)

\* A function with a registration before an ordinary decorator, and one with
\* two registrations.
C4_Witness ==
    \E f \in is_decorated :
        /\ f \notin prop_setters
        /\ Len(source_decorators[f]) = 2
        /\ IsRegistration(source_decorators[f][1], f)
        /\ ~IsRegistration(source_decorators[f][2], f)
        /\ Len(funcs_to_decorators[f]) = 1
        /\ \E disp \in Dispatchers : Len(singledispatch_impls[disp]) = 1

\* C10: when the traversal is over, the recorded owner of every symbol in
\* free_variables[F] is F, so no symbol is a free variable of two functions.
C10_FreeVariableOwned ==
    funcs = <<>> =>
        \A f \in Funcs : \A s \in free_variables[f] : symbols_to_funcs[s] = f

====
